---- MODULE Spec2Model ----
(***************************************************************************)
(* CSV-to-JSON converter: parse_csv, _infer_type, convert_to_json of       *)
(* src/src/csv_to_json.py and the parse_csv variant of src/src/converter.py*)
(*                                                                         *)
(* Text is a sequence of characters, each character a one-token string.    *)
(* A Python value is a tagged record, a dict an insertion-ordered sequence *)
(* of [k, v] entries.  file[i] is the list of fields csv.reader yields for *)
(* physical line i of the input (no field spans lines, so one record per   *)
(* physical line); an empty physical line yields the empty list.  The      *)
(* reader consumes the input line by line: file holds the lines consumed,  *)
(* so a run that raises at a line leaves the lines after it out of file.   *)
(***************************************************************************)
EXTENDS Integers, Sequences, FiniteSets, TLC

VARIABLES
    impl,          \* which parse_csv runs: "csv_to_json" or "converter"
    input_path,    \* what the input path names: "file", "missing", "too_large"
    file,          \* the physical lines of the input the reader has consumed
    eof,           \* the reader has reached the end of the input
    columns,       \* the column allow-list argument (PyNone or a PyList)
    pc,            \* position of the run
    fieldnames,    \* reader.fieldnames (PyNone before the header is read)
    row_num,       \* value enumerate(reader, start=2) hands out next
    csv_data,      \* the Dataset being built / handed to convert_to_json
    exc,           \* the exception that ended the run (NoException if none)
    pretty,        \* convert_to_json's pretty flag
    infer_types,   \* convert_to_json's infer_types flag
    typed_data,    \* csv_data after the inference comprehension
    json_output,   \* the text convert_to_json returned
    output_path,   \* main's output argument: PyNone (stdout) or a path
    sink,          \* what output_json has written, one entry per write
    stderr,        \* the lines main has printed to standard error
    exit_code      \* PyNone, or the code main has called sys.exit with

vars == <<impl, input_path, file, eof, columns, pc, fieldnames, row_num,
          csv_data, exc, pretty, infer_types, typed_data, json_output,
          output_path, sink, stderr, exit_code>>

\* main's side of the state, untouched by parse_csv and convert_to_json
main_vars == <<output_path, sink, stderr, exit_code>>

----------------------------------------------------------------------------
(* Bounds of the model *)

\* most data lines after the header
MaxLines == 2
\* most fields on one data line
MaxFields == 3
\* longest text handed to _infer_type, in characters
MaxTextLen == 3

----------------------------------------------------------------------------
(* Python values *)

PyNone == [t |-> "None"]
PyStr(s) == [t |-> "str", s |-> s]
PyList(l) == [t |-> "list", l |-> l]
PyInt(n) == [t |-> "int", n |-> n]
PyBool(b) == [t |-> "bool", b |-> b]

\* bool(value): None, '' and [] are falsy
Truthy(v) ==
    CASE v.t = "None" -> FALSE
      [] v.t = "str" -> v.s # <<>>
      [] v.t = "list" -> v.l # <<>>
      [] v.t = "int" -> v.n # 0
      [] v.t = "bool" -> v.b
      [] OTHER -> TRUE

\* characters str.strip() and float() treat as whitespace
Whitespace == {" ", "\t", "\n", "\r"}

RECURSIVE lstrip(_)
lstrip(s) ==
    IF s # <<>> /\ Head(s) \in Whitespace THEN lstrip(Tail(s)) ELSE s

RECURSIVE rstrip(_)
rstrip(s) ==
    IF s # <<>> /\ s[Len(s)] \in Whitespace
    THEN rstrip(SubSeq(s, 1, Len(s) - 1))
    ELSE s

\* str.strip()
strip(s) == rstrip(lstrip(s))

----------------------------------------------------------------------------
(* dict: insertion-ordered entries, one per key *)

EmptyDict == <<>>

DictKeys(d) == [i \in 1..Len(d) |-> d[i].k]

DictValues(d) == [i \in 1..Len(d) |-> d[i].v]

DictHas(d, key) == \E i \in 1..Len(d) : d[i].k = key

DictGet(d, key) == d[CHOOSE i \in 1..Len(d) : d[i].k = key].v

\* d[key] = value: an existing key keeps its position and takes the new value
DictSet(d, key, value) ==
    IF DictHas(d, key)
    THEN [i \in 1..Len(d) |-> IF d[i].k = key THEN [k |-> key, v |-> value] ELSE d[i]]
    ELSE Append(d, [k |-> key, v |-> value])

\* dict(zip(keys, values)): pairs up to the shorter of the two
RECURSIVE DictZip(_, _, _)
DictZip(d, keys, values) ==
    IF keys = <<>> \/ values = <<>>
    THEN d
    ELSE DictZip(DictSet(d, PyStr(Head(keys)), PyStr(Head(values))),
                 Tail(keys), Tail(values))

\* for key in keys: d[key] = restval
RECURSIVE DictFill(_, _, _)
DictFill(d, keys, restval) ==
    IF keys = <<>>
    THEN d
    ELSE DictFill(DictSet(d, PyStr(Head(keys)), restval), Tail(keys), restval)

----------------------------------------------------------------------------
(* Exceptions *)

NoException == [type |-> "none"]

FileNotFoundError == [type |-> "FileNotFoundError", msg |-> "CSV file not found."]

TooLargeError ==
    [type |-> "ValueError", msg |-> "CSV file too large. Maximum size is 10MB."]

NoDataError == [type |-> "ValueError", msg |-> "No data found in CSV."]

InconsistentRowError(n) ==
    [type |-> "ValueError", msg |-> "Row N has inconsistent column count.", N |-> n]

InvalidColumnsError(names) ==
    [type |-> "ValueError", msg |-> "Invalid column(s): ", names |-> names]

StripAttributeError ==
    [type |-> "AttributeError", msg |-> "'list' object has no attribute 'strip'"]

----------------------------------------------------------------------------
(* csv.DictReader *)

\* DictReader.fieldnames read for the first time: the first physical line,
\* or None when the file has no line at all
DictReader_fieldnames(f) ==
    IF f = <<>> THEN PyNone ELSE PyList(f[1])

\* the dict DictReader.__next__ builds from one record: zip, then the
\* surplus fields under restkey None, or restval None for the missing ones
DictReader_row(names, row) ==
    LET d == DictZip(EmptyDict, names, row)
        lf == Len(names)
        lr == Len(row)
    IN  IF lf < lr
        THEN DictSet(d, PyNone, PyList(SubSeq(row, lf + 1, lr)))
        ELSE IF lf > lr
             THEN DictFill(d, SubSeq(names, lr + 1, lf), PyNone)
             ELSE d

----------------------------------------------------------------------------
(* parse_csv: the body of the row loop *)

\* a blank check that forgets strip(): whitespace counts as content
RECURSIVE AnyStripped_NoStrip(_)
AnyStripped_NoStrip(values) ==
    IF values = <<>>
    THEN "False"
    ELSE LET v == Head(values)
         IN  IF ~Truthy(v)
             THEN AnyStripped_NoStrip(Tail(values))
             ELSE IF v.t # "str" THEN "raise" ELSE "True"

\* any(value.strip() for value in row.values() if value), evaluated left to
\* right: "raise" when the first value that decides it is a list
RECURSIVE AnyStripped(_)
AnyStripped(values) ==
    IF values = <<>>
    THEN "False"
    ELSE LET v == Head(values)
         IN  IF ~Truthy(v)
             THEN AnyStripped(Tail(values))
             ELSE IF v.t # "str"
                  THEN "raise"
                  ELSE IF strip(v.s) # <<>>
                       THEN "True"
                       ELSE AnyStripped(Tail(values))

SeqToSet(s) == {s[i] : i \in 1..Len(s)}

SeqsUpTo(S, n) == UNION {[1..k -> S] : k \in 0..n}

\* a projection that walks the row instead of the request: header order
FilterRow_HeaderOrder(d, row, cols) ==
    d \o SelectSeq(row, LAMBDA e : e.k.t = "str" /\ e.k.s \in SeqToSet(cols))

\* {col: row[col] for col in columns if col in row}
RECURSIVE FilterRow(_, _, _)
FilterRow(d, row, cols) ==
    IF cols = <<>>
    THEN d
    ELSE LET col == PyStr(Head(cols))
         IN  FilterRow(IF DictHas(row, col) THEN DictSet(d, col, DictGet(row, col)) ELSE d,
                       row, Tail(cols))

\* outcome of one iteration of the loop of csv_to_json.parse_csv
LoopBody(row, names, n, cols) ==
    LET blank == AnyStripped(DictValues(row))
    IN  IF blank = "raise"
        THEN [kind |-> "raise", exc |-> StripAttributeError]
        ELSE IF blank = "False"
        THEN [kind |-> "continue"]
        ELSE IF Len(row) # Len(names)
        THEN [kind |-> "raise", exc |-> InconsistentRowError(n)]
        ELSE IF Truthy(cols)
        THEN LET invalid_columns == SeqToSet(cols.l) \ SeqToSet(names)
             IN  IF invalid_columns # {}
                 THEN [kind |-> "raise", exc |-> InvalidColumnsError(invalid_columns)]
                 ELSE [kind |-> "append", row |-> FilterRow(EmptyDict, row, cols.l)]
        ELSE [kind |-> "append", row |-> row]

\* outcome of one iteration of the loop of converter.parse_csv
converter_LoopBody(row, names, n) ==
    LET blank == AnyStripped(DictValues(row))
    IN  IF blank = "raise"
        THEN [kind |-> "raise", exc |-> StripAttributeError]
        ELSE IF blank = "False"
        THEN [kind |-> "continue"]
        ELSE IF Len(row) # Len(names)
        THEN [kind |-> "raise", exc |-> InconsistentRowError(n)]
        ELSE [kind |-> "append", row |-> row]

---------------------------------------------------------------------------------------------------------------------------------------------------
(* Characters of the texts handed to _infer_type *)

\* "sup2" stands for U+00B2 SUPERSCRIPT TWO: str.isdigit() holds of it,
\* int() rejects it
DecimalDigits == <<"0", "1", "2", "3", "4", "5", "6", "7", "8", "9">>

IsDecimal(c) == \E i \in 1..10 : DecimalDigits[i] = c

DigitValue(c) == (CHOOSE i \in 1..10 : DecimalDigits[i] = c) - 1

IsDigitChar(c) == IsDecimal(c) \/ c = "sup2"

Uppercase == <<"A", "E", "F", "I", "L", "N", "R", "S", "T", "U", "Y">>

Lowercase == <<"a", "e", "f", "i", "l", "n", "r", "s", "t", "u", "y">>

LowerChar(c) ==
    IF \E i \in 1..Len(Uppercase) : Uppercase[i] = c
    THEN Lowercase[CHOOSE i \in 1..Len(Uppercase) : Uppercase[i] = c]
    ELSE c

\* str.lower()
lower(s) == [i \in 1..Len(s) |-> LowerChar(s[i])]

\* str.isdigit(): at least one character, all of them digits
isdigit(s) == s # <<>> /\ \A i \in 1..Len(s) : IsDigitChar(s[i])

AllDecimal(s) == \A i \in 1..Len(s) : IsDecimal(s[i])

\* value of a sequence of decimal digits
RECURSIVE DecimalValue(_)
DecimalValue(s) ==
    IF s = <<>> THEN 0 ELSE 10 * DecimalValue(SubSeq(s, 1, Len(s) - 1)) + DigitValue(s[Len(s)])

\* the decimal digits of n >= 0
RECURSIVE DecimalText(_)
DecimalText(n) ==
    IF n < 10
    THEN <<DecimalDigits[n + 1]>>
    ELSE Append(DecimalText(n \div 10), DecimalDigits[(n % 10) + 1])

----------------------------------------------------------------------------
(* float *)

\* a float: nan, an infinity, or the finite ip + 0.fr (fr carries no
\* trailing zero), with the sign kept apart so that -0.0 exists
PyFloat(kind, neg, ip, fr) ==
    [t |-> "float", kind |-> kind, neg |-> neg, ip |-> ip, fr |-> fr]

RECURSIVE DropTrailingZeros(_)
DropTrailingZeros(s) ==
    IF s # <<>> /\ s[Len(s)] = "0"
    THEN DropTrailingZeros(SubSeq(s, 1, Len(s) - 1))
    ELSE s

\* position of the first "." of s, 0 if it has none
DotAt(s) ==
    IF \E i \in 1..Len(s) : s[i] = "."
    THEN CHOOSE i \in 1..Len(s) : s[i] = "." /\ \A j \in 1..(i - 1) : s[j] # "."
    ELSE 0

\* float(text) on texts without exponent or underscore: surrounding
\* whitespace is stripped, then [sign] "inf" | "infinity" | "nan" in any
\* case, or [sign] digits ["." [digits]] | [sign] "." digits
ParseFloat(s) ==
    LET body == strip(s)
        signed == body # <<>> /\ Head(body) \in {"+", "-"}
        neg == signed /\ Head(body) = "-"
        rest == IF signed THEN Tail(body) ELSE body
        dot == DotAt(rest)
        ipart == IF dot = 0 THEN rest ELSE SubSeq(rest, 1, dot - 1)
        fpart == IF dot = 0 THEN <<>> ELSE SubSeq(rest, dot + 1, Len(rest))
    IN  IF lower(rest) \in {<<"i", "n", "f">>, <<"i", "n", "f", "i", "n", "i", "t", "y">>}
        THEN [ok |-> TRUE, v |-> PyFloat("inf", neg, 0, <<>>)]
        ELSE IF lower(rest) = <<"n", "a", "n">>
        THEN [ok |-> TRUE, v |-> PyFloat("nan", FALSE, 0, <<>>)]
        ELSE IF AllDecimal(ipart) /\ AllDecimal(fpart) /\ ipart \o fpart # <<>>
        THEN [ok |-> TRUE,
              v |-> PyFloat("finite", neg, DecimalValue(ipart), DropTrailingZeros(fpart))]
        ELSE [ok |-> FALSE]

\* float.__repr__ as json.dumps writes it
FloatRepr(f) ==
    CASE f.kind = "nan" -> <<"N", "a", "N">>
      [] f.kind = "inf" ->
            (IF f.neg THEN <<"-">> ELSE <<>>) \o <<"I", "n", "f", "i", "n", "i", "t", "y">>
      [] OTHER ->
            (IF f.neg THEN <<"-">> ELSE <<>>) \o DecimalText(f.ip) \o <<".">>
               \o (IF f.fr = <<>> THEN <<"0">> ELSE f.fr)

----------------------------------------------------------------------------
(* _infer_type *)

IntValueError ==
    [type |-> "ValueError", msg |-> "invalid literal for int() with base 10"]

\* _infer_type(value): what it returns, or the exception int() raises
infer_type(value) ==
    IF value.t # "str"
    THEN [kind |-> "return", v |-> value]
    ELSE IF isdigit(value.s)
    THEN IF AllDecimal(value.s)
         THEN [kind |-> "return", v |-> PyInt(DecimalValue(value.s))]
         ELSE [kind |-> "raise", exc |-> IntValueError]
    ELSE IF ParseFloat(value.s).ok
    THEN [kind |-> "return", v |-> ParseFloat(value.s).v]
    ELSE IF lower(value.s) \in {<<"t", "r", "u", "e">>, <<"f", "a", "l", "s", "e">>}
    THEN [kind |-> "return", v |-> PyBool(lower(value.s) = <<"t", "r", "u", "e">>)]
    ELSE [kind |-> "return", v |-> value]

\* [{k: _infer_type(v) for k, v in row.items()} for row in csv_data]
InferRows(data) ==
    [n \in 1..Len(data) |->
        [i \in 1..Len(data[n]) |->
            [k |-> data[n][i].k, v |-> infer_type(data[n][i].v).v]]]

\* some _infer_type call of that comprehension raises
InferRaises(data) ==
    \E n \in 1..Len(data) : \E i \in 1..Len(data[n]) :
        infer_type(data[n][i].v).kind = "raise"

----------------------------------------------------------------------------
(* json.dumps(csv_data, indent=..., ensure_ascii=False) *)

RECURSIVE Concat(_)
Concat(parts) == IF parts = <<>> THEN <<>> ELSE Head(parts) \o Concat(Tail(parts))

RECURSIVE Join(_, _)
Join(parts, sep) ==
    IF Len(parts) <= 1
    THEN Concat(parts)
    ELSE Head(parts) \o sep \o Join(Tail(parts), sep)

Spaces(n) == [i \in 1..n |-> " "]

\* one character of a string literal: quote, backslash and the control
\* characters are escaped, everything else (non-ASCII too) is written as is
EscapeChar(c) ==
    CASE c = "\"" -> <<"\\", "\"">>
      [] c = "\\" -> <<"\\", "\\">>
      [] c = "\n" -> <<"\\", "n">>
      [] c = "\r" -> <<"\\", "r">>
      [] c = "\t" -> <<"\\", "t">>
      [] OTHER -> <<c>>

encode_basestring(s) ==
    <<"\"">> \o Concat([i \in 1..Len(s) |-> EscapeChar(s[i])]) \o <<"\"">>

\* an item separator without the space, as separators=(",", ":") gives
ItemSeparator_Tight(indent) == <<",">>

\* the separators json.dumps picks: (", ", ": ") without indent,
\* (",", ": ") with one
ItemSeparator(indent) == IF indent = PyNone THEN <<",", " ">> ELSE <<",">>

KeySeparator(indent) == <<":", " ">>


\* "\n" + " " * (indent * level) with an indent, nothing without
NewlineIndent(indent, level) ==
    IF indent = PyNone THEN <<>> ELSE <<"\n">> \o Spaces(indent.n * level)

\* json.dumps(..., indent=4) of the pretty mode
Indent == 4

\* a container: open, items one per line when indented, close
EncodeContainer(open, close, items, indent, level) ==
    IF items = <<>>
    THEN <<open, close>>
    ELSE <<open>> \o NewlineIndent(indent, level + 1)
           \o Join(items, ItemSeparator(indent) \o NewlineIndent(indent, level + 1))
           \o NewlineIndent(indent, level) \o <<close>>

\* a scalar, or the list DictReader stores under restkey
EncodeValue(v, indent, level) ==
    CASE v.t = "str" -> encode_basestring(v.s)
      [] v.t = "None" -> <<"n", "u", "l", "l">>
      [] v.t = "bool" -> IF v.b THEN <<"t", "r", "u", "e">> ELSE <<"f", "a", "l", "s", "e">>
      [] v.t = "int" -> DecimalText(v.n)
      [] v.t = "float" -> FloatRepr(v)
      [] v.t = "list" ->
            EncodeContainer("[", "]", [i \in 1..Len(v.l) |-> encode_basestring(v.l[i])],
                            indent, level)

\* a dict key: a str as it is, None as "null"
EncodeKey(key) ==
    IF key.t = "None" THEN encode_basestring(<<"n", "u", "l", "l">>)
    ELSE encode_basestring(key.s)

EncodeDict(d, indent, level) ==
    EncodeContainer("{", "}",
        [i \in 1..Len(d) |->
            EncodeKey(d[i].k) \o KeySeparator(indent) \o EncodeValue(d[i].v, indent, level + 1)],
        indent, level)

json_dumps(data, indent) ==
    EncodeContainer("[", "]", [n \in 1..Len(data) |-> EncodeDict(data[n], indent, 1)],
                    indent, 0)

----------------------------------------------------------------------------
(* Inputs *)

\* header lines; <<>> is an empty first line
Headers == {<<>>, << <<"a">> >>, << <<"a">>, <<"b">> >>, << <<"b">>, <<"a">> >>,
            << <<"a">>, <<"a">> >>}

\* field texts: empty, whitespace only, text
Fields == {<<>>, <<" ">>, <<"x">>}

\* the records csv.reader can yield for one data line
Lines == SeqsUpTo(Fields, MaxFields)

\* a field of one digit character that is no decimal digit tells a run
\* that infers types from one that does not, so the runs that infer
\* types draw their records from these as well
DigitLines == {<< <<"sup2">> >>, << <<"x">>, <<"sup2">> >>}

\* allow-lists: none, or names of which "c" is in no header
ColumnLists ==
    {PyNone, PyList(<<>>), PyList(<< <<"a">> >>), PyList(<< <<"b">>, <<"a">> >>),
     PyList(<< <<"b">>, <<"b">> >>), PyList(<< <<"c">>, <<"a">> >>)}

\* data lines consumed so far (the header is line 1)
DataLines(f) == IF f = <<>> THEN 0 ELSE Len(f) - 1

EmptyLines(n) == [i \in 1..n |-> <<>>]

----------------------------------------------------------------------------
(* parse_csv as a state machine *)

InitParse ==
    /\ impl \in {"csv_to_json", "converter"}
    /\ input_path \in {"file", "missing", "too_large"}
    /\ file = <<>>
    /\ eof = FALSE
    /\ columns \in IF impl = "converter" THEN {PyNone} ELSE ColumnLists
    /\ pc = "start"
    /\ fieldnames = PyNone
    /\ row_num = 2
    /\ csv_data = <<>>
    /\ exc = NoException
    /\ pretty = TRUE
    /\ infer_types = FALSE
    /\ typed_data = <<>>
    /\ json_output = <<>>
    /\ output_path = PyNone
    /\ sink = <<>>
    /\ stderr = <<>>
    /\ exit_code = PyNone

\* the checks before the file is opened: the path exists, the size is
\* within the limit
CheckInput ==
    /\ pc = "start"
    /\ IF input_path = "missing"
       THEN exc' = FileNotFoundError /\ pc' = "parse_raised"
       ELSE IF input_path = "too_large"
       THEN exc' = TooLargeError /\ pc' = "parse_raised"
       ELSE exc' = exc /\ pc' = "open"
    /\ UNCHANGED <<impl, input_path, file, eof, columns, fieldnames, row_num,
                   csv_data, pretty, infer_types, typed_data, json_output>>
    /\ UNCHANGED main_vars

\* open the file, build the DictReader, read the header: "if not
\* reader.fieldnames: raise"
OpenReader ==
    /\ pc = "open"
    /\ \E input \in {<<>>} \cup {<<h>> : h \in Headers} :
          LET names == DictReader_fieldnames(input)
          IN  /\ file' = input
              /\ eof' = (input = <<>>)
              /\ fieldnames' = names
              /\ IF ~Truthy(names)
                 THEN /\ exc' = NoDataError
                      /\ pc' = "parse_raised"
                 ELSE /\ exc' = exc
                      /\ pc' = "rows"
    /\ UNCHANGED <<impl, input_path, columns, row_num, csv_data, pretty,
                   infer_types, typed_data, json_output>>
    /\ UNCHANGED main_vars

\* one turn of "for row_num, row in enumerate(reader, start=2)".
\* DictReader.__next__ consumes the empty physical lines in front of the
\* next record ("while row == []: row = next(self.reader)") without
\* handing them out; the input either ends there or holds one more record.
NextRow ==
    /\ pc = "rows"
    /\ \E skipped \in 0..(MaxLines - DataLines(file)) :
          \/ /\ file' = file \o EmptyLines(skipped)
             /\ eof' = TRUE
             /\ pc' = "check"
             /\ UNCHANGED <<row_num, csv_data, exc>>
          \/ /\ DataLines(file) + skipped < MaxLines
             /\ \E record \in (Lines \ {<<>>})
                                 \cup (IF infer_types THEN DigitLines ELSE {}) :
                   LET row == DictReader_row(fieldnames.l, record)
                       out == IF impl = "converter"
                              THEN converter_LoopBody(row, fieldnames.l, row_num)
                              ELSE LoopBody(row, fieldnames.l, row_num, columns)
                   IN  /\ file' = Append(file \o EmptyLines(skipped), record)
                       /\ eof' = eof
                       /\ row_num' = row_num + 1
                       /\ csv_data' = IF out.kind = "append"
                                      THEN Append(csv_data, out.row)
                                      ELSE csv_data
                       /\ exc' = IF out.kind = "raise" THEN out.exc ELSE exc
                       /\ pc' = IF out.kind = "raise" THEN "parse_raised" ELSE "rows"
    /\ UNCHANGED <<impl, input_path, columns, fieldnames, pretty, infer_types,
                   typed_data, json_output>>
    /\ UNCHANGED main_vars

\* after the loop: "if not csv_data: raise", else return csv_data
ReturnData ==
    /\ pc = "check"
    /\ IF csv_data = <<>>
       THEN /\ exc' = NoDataError
            /\ pc' = "parse_raised"
       ELSE /\ exc' = exc
            /\ pc' = "parsed"
    /\ UNCHANGED <<impl, input_path, file, eof, columns, fieldnames, row_num,
                   csv_data, pretty, infer_types, typed_data, json_output>>
    /\ UNCHANGED main_vars

NextParse == CheckInput \/ OpenReader \/ NextRow \/ ReturnData

SpecParse == InitParse /\ [][NextParse]_vars

----------------------------------------------------------------------------
(* convert_to_json *)

Row1(k, v) == <<[k |-> PyStr(k), v |-> v]>>

Scenario1 ==
    << <<[k |-> PyStr(<<"n", "a", "m", "e">>), v |-> PyStr(<<"A", "l", "i", "c", "e">>)],
         [k |-> PyStr(<<"a", "g", "e">>), v |-> PyStr(<<"3", "0">>)]>>,
       <<[k |-> PyStr(<<"n", "a", "m", "e">>), v |-> PyStr(<<"B", "o", "b">>)],
         [k |-> PyStr(<<"a", "g", "e">>), v |-> PyStr(<<"2", "5">>)]>> >>

\* characters the generated texts are made of
InferAlphabet == {"0", "1", ".", "-", " ", "sup2"}

\* texts that need more than the alphabet: booleans, float words, text
\* with a quote, a backslash and separators inside
InferWords ==
    {<<"t", "r", "u", "e">>, <<"f", "a", "l", "s", "e">>, <<"T", "r", "u", "e">>, <<"F", "A", "L", "S", "E">>, <<" ", "t", "r", "u", "e">>,
     <<"n", "a", "n">>, <<"-", "i", "n", "f">>, <<"I", "n", "f", "i", "n", "i", "t", "y">>, <<"y", "e", "s">>,
     <<"a", "\"", ",", " ", "\\", "b", ":", " ">>, <<"x", "\n", "y">>}

InferTexts == SeqsUpTo(InferAlphabet, MaxTextLen) \cup InferWords

\* Datasets handed to convert_to_json: one value under one key, the
\* two-row example, and the Rows parse_csv builds from ragged lines (None
\* for a missing field, the surplus fields as a list under the key None)
ConvertInputs ==
    {<<Row1(<<"v">>, PyStr(s))>> : s \in InferTexts}
    \cup {Scenario1,
          <<Row1(<<"a">>, PyStr(<<"x">>)) \o Row1(<<"b">>, PyNone)>>,
          <<Row1(<<"a">>, PyStr(<<"1">>)) \o <<[k |-> PyNone, v |-> PyList(<< <<"1">>, <<>> >>)]>>,
            Row1(<<"a">>, PyStr(<<"0", ".", "5">>)) \o Row1(<<"b">>, PyStr(<<" ">>))>>}

InitConvert ==
    /\ impl = "csv_to_json"
    /\ input_path = "file"
    /\ file = <<>>
    /\ eof = FALSE
    /\ columns = PyNone
    /\ pc = "parsed"
    /\ fieldnames = PyNone
    /\ row_num = 2
    /\ csv_data \in ConvertInputs
    /\ exc = NoException
    /\ pretty \in BOOLEAN
    /\ infer_types \in BOOLEAN
    /\ typed_data = <<>>
    /\ json_output = <<>>
    /\ output_path = PyNone
    /\ sink = <<>>
    /\ stderr = <<>>
    /\ exit_code = PyNone

\* convert_to_json(csv_data, pretty, infer_types): the comprehension over
\* _infer_type when asked for, then json.dumps; an exception of int()
\* leaves the function before json.dumps is reached
ConvertToJson ==
    /\ pc = "parsed"
    /\ IF infer_types /\ InferRaises(csv_data)
       THEN /\ exc' = IntValueError
            /\ pc' = "convert_raised"
            /\ UNCHANGED <<typed_data, json_output>>
       ELSE /\ typed_data' = IF infer_types THEN InferRows(csv_data) ELSE csv_data
            /\ json_output' = json_dumps(typed_data', IF pretty THEN PyInt(Indent) ELSE PyNone)
            /\ pc' = "converted"
            /\ exc' = exc
    /\ UNCHANGED <<impl, input_path, file, eof, columns, fieldnames, row_num,
                   csv_data, pretty, infer_types>>
    /\ UNCHANGED main_vars

NextConvert == ConvertToJson

SpecConvert == InitConvert /\ [][NextConvert]_vars

----------------------------------------------------------------------------
(* main: parse_csv, convert_to_json, output_json, and the except clauses *)

UnableToWriteError ==
    [type |-> "OSError", msg |-> "Unable to write to output file: "]

\* the exception types main reports as they are; the main of cli.py does
\* not name csv.Error
Recognized ==
    {"FileNotFoundError", "ValueError", "TypeError", "OSError"}
       \cup (IF impl = "converter" THEN {} ELSE {"csv.Error"})

\* main after parse_args: the arguments are set, nothing has run.  The
\* allow-list is args.columns.split(','), so never an empty list; the
\* main of cli.py has neither allow-list nor inference
Init ==
    /\ impl \in {"csv_to_json", "converter"}
    /\ input_path \in {"file", "missing", "too_large"}
    /\ file = <<>>
    /\ eof = FALSE
    /\ columns \in IF impl = "converter" THEN {PyNone} ELSE ColumnLists \ {PyList(<<>>)}
    /\ pc = "start"
    /\ fieldnames = PyNone
    /\ row_num = 2
    /\ csv_data = <<>>
    /\ exc = NoException
    /\ pretty \in BOOLEAN
    /\ infer_types \in IF impl = "converter" THEN {FALSE} ELSE BOOLEAN
    /\ typed_data = <<>>
    /\ json_output = <<>>
    /\ output_path \in {PyNone, PyStr(<<"o">>)}
    /\ sink = <<>>
    /\ stderr = <<>>
    /\ exit_code = PyNone

\* what the file can hold when f.write or the close of the with block
\* raises after open(output_file, 'w') has succeeded: open has emptied the
\* file, and a part of the text may have reached it (the shortest and the
\* longest such part stand for all of them)
PartlyWritten(text) == {<<>>, SubSeq(text, 1, Len(text) - 1)}

\* output_json(json_output, args.output): the text to the file, or the
\* text and a newline to standard output.  Both open and f.write are
\* inside the try, so the wrapped IOError is raised either by open (the
\* path cannot be opened, the destination is untouched) or by the write
\* after open (the destination is emptied and holds a part of the text)
OutputJson ==
    /\ pc = "converted"
    /\ \/ /\ sink' = Append(sink,
                        IF Truthy(output_path)
                        THEN [to |-> "file", text |-> json_output]
                        ELSE [to |-> "stdout", text |-> json_output \o <<"\n">>])
          /\ pc' = "done"
          /\ exc' = exc
       \/ /\ Truthy(output_path)
          /\ exc' = UnableToWriteError
          /\ pc' = "output_raised"
          /\ sink' = sink
       \/ /\ Truthy(output_path)
          /\ \E part \in PartlyWritten(json_output) :
                sink' = Append(sink, [to |-> "file", text |-> part])
          /\ exc' = UnableToWriteError
          /\ pc' = "output_raised"
    /\ UNCHANGED <<impl, input_path, file, eof, columns, fieldnames, row_num,
                   csv_data, pretty, infer_types, typed_data, json_output,
                   output_path, stderr, exit_code>>

\* the except clauses of main: print the error, sys.exit(1)
HandleError ==
    /\ pc \in {"parse_raised", "convert_raised", "output_raised"}
    /\ stderr' = Append(stderr,
                        [text |-> IF exc.type \in Recognized
                                  THEN <<"Error: ">>
                                  ELSE <<"Error: ", "Unexpected error occurred: ">>,
                         exc |-> exc])
    /\ exit_code' = PyInt(1)
    /\ pc' = "exited"
    /\ UNCHANGED <<impl, input_path, file, eof, columns, fieldnames, row_num,
                   csv_data, exc, pretty, infer_types, typed_data, json_output,
                   output_path, sink>>

Next ==
    \/ CheckInput
    \/ OpenReader
    \/ NextRow
    \/ ReturnData
    \/ ConvertToJson
    \/ OutputJson
    \/ HandleError

Spec == Init /\ [][Next]_vars

----------------------------------------------------------------------------
(* Vocabulary of the properties of parse_csv *)

IsBlankField(f) == \A i \in 1..Len(f) : f[i] \in Whitespace

\* every field of the line is empty or whitespace-only
IsBlankLine(l) == \A i \in 1..Len(l) : IsBlankField(l[i])

Last(s) == s[Len(s)]

Distinct(s) == \A i, j \in 1..Len(s) : s[i] = s[j] => i = j

\* parse_csv has returned or raised
ParseEnded == input_path = "file" /\ pc \in {"parsed", "parse_raised"}

\* the data lines of the input that are not blank, in file order
NonBlankLines(f) ==
    IF f = <<>> THEN <<>> ELSE SelectSeq(Tail(f), LAMBDA l : ~IsBlankLine(l))

IsInconsistentRow(e) ==
    e.type = "ValueError" /\ e.msg = "Row N has inconsistent column count."

\* the Row the header h and the fields of line l zip to
ZippedRow(h, l) == [i \in 1..Len(h) |-> [k |-> PyStr(h[i]), v |-> PyStr(l[i])]]

\* header with distinct names, every data line an empty line or a line of
\* exactly as many fields as the header
WellFormed(f) ==
    /\ f # <<>>
    /\ f[1] # <<>>
    /\ Distinct(f[1])
    /\ \A i \in 2..Len(f) : f[i] = <<>> \/ Len(f[i]) = Len(f[1])

----------------------------------------------------------------------------
(* C1: whenever a data line that is not blank has a field count different  *)
(* from the header's, fewer or more, parse_csv raises ValueError "Row N    *)
(* has inconsistent column count." and returns no Dataset.                 *)
C1_InconsistentRowRaised ==
    ( /\ ParseEnded
      /\ file # <<>>
      /\ file[1] # <<>>
      /\ \E i \in 2..Len(file) :
            ~IsBlankLine(file[i]) /\ Len(file[i]) # Len(file[1]) )
    => (pc = "parse_raised" /\ IsInconsistentRow(exc))

(* C2: parse_csv raises ValueError "No data found in CSV." for an empty    *)
(* file, a header-only file and a file whose every data line is blank, and *)
(* every Dataset it returns has at least one Row.                          *)
C2_EmptyInputRaised ==
    /\ (ParseEnded /\ \A i \in 2..Len(file) : IsBlankLine(file[i]))
          => (pc = "parse_raised" /\ exc = NoDataError)
    /\ pc = "parsed" => csv_data # <<>>

(* C3: for a well-formed input with N >= 1 non-blank data rows and no      *)
(* allow-list, parse_csv returns exactly those N Rows in file order, each  *)
(* with the header's names as keys in header order and the raw field text  *)
(* as values.                                                              *)
C3_WellFormedDataset ==
    ( /\ ParseEnded
      /\ columns = PyNone
      /\ WellFormed(file)
      /\ NonBlankLines(file) # <<>> )
    => /\ pc = "parsed"
       /\ Len(csv_data) = Len(NonBlankLines(file))
       /\ \A n \in 1..Len(csv_data) :
             csv_data[n] = ZippedRow(file[1], NonBlankLines(file)[n])

\* two different Rows came out of a two-column file, whitespace kept
C3_Witness ==
    /\ pc = "parsed"
    /\ columns = PyNone
    /\ WellFormed(file)
    /\ csv_data = << <<[k |-> PyStr(<<"a">>), v |-> PyStr(<<"x">>)],
                       [k |-> PyStr(<<"b">>), v |-> PyStr(<<" ">>)]>>,
                     <<[k |-> PyStr(<<"a">>), v |-> PyStr(<<>>)],
                       [k |-> PyStr(<<"b">>), v |-> PyStr(<<"x">>)]>> >>

\* the names of s in order of first occurrence
RECURSIVE FirstOccurrences(_, _)
FirstOccurrences(seen, s) ==
    IF s = <<>>
    THEN seen
    ELSE FirstOccurrences(IF Head(s) \in SeqToSet(seen) THEN seen ELSE Append(seen, Head(s)),
                          Tail(s))

(* C4: with an allow-list whose names all occur in the header, every Row   *)
(* parse_csv retains holds exactly the requested columns, in the order     *)
(* requested, each with the value the column has in the unprojected Row of *)
(* the same line.                                                          *)
C4_ProjectionKeepsRequestedOrder ==
    [][ ( /\ Len(csv_data') = Len(csv_data) + 1
          /\ Truthy(columns)
          /\ SeqToSet(columns.l) \subseteq SeqToSet(fieldnames.l) )
        => LET kept == Last(csv_data')
               full == DictReader_row(fieldnames.l, Last(file'))
               wanted == FirstOccurrences(<<>>, columns.l)
           IN  /\ Len(kept) = Len(wanted)
               /\ \A i \in 1..Len(kept) :
                     /\ kept[i].k = PyStr(wanted[i])
                     /\ \E j \in 1..Len(full) :
                           full[j].k = kept[i].k /\ full[j].v = kept[i].v
      ]_vars

\* columns b,a requested of a file with header a,b: the Row comes out b first
C4_Witness ==
    /\ pc = "parsed"
    /\ columns = PyList(<< <<"b">>, <<"a">> >>)
    /\ fieldnames = PyList(<< <<"a">>, <<"b">> >>)
    /\ csv_data = << <<[k |-> PyStr(<<"b">>), v |-> PyStr(<<" ">>)],
                       [k |-> PyStr(<<"a">>), v |-> PyStr(<<"x">>)]>> >>

(* C8: the N of "Row N has inconsistent column count." is the 1-based      *)
(* physical line number of the offending line, the header being line 1,    *)
(* whatever lines come before it.                                          *)
C8_RowNumberIsLineNumber ==
    (pc = "parse_raised" /\ IsInconsistentRow(exc)) => exc.N = Len(file)

(* C9: a data line whose fields are all empty or whitespace-only is        *)
(* skipped whatever its field count: it raises no error of any kind (the   *)
(* blank check comes before the field-count check) and adds no Row.        *)
C9_BlankLineSkipped ==
    /\ (pc = "parse_raised" /\ ~eof /\ Len(file) >= 2) => ~IsBlankLine(Last(file))
    /\ Len(csv_data) <= Len(NonBlankLines(file))

(* C10: a header with duplicate names is not rejected: parse_csv succeeds  *)
(* on a file whose data lines have as many fields as the header has names, *)
(* and in each Row the duplicated name maps to the value of its last       *)
(* occurrence.                                                             *)
C10_DuplicateHeaderAccepted ==
    ( /\ ParseEnded
      /\ file # <<>>
      /\ ~Distinct(file[1])
      /\ columns = PyNone
      /\ \A i \in 2..Len(file) : Len(file[i]) = Len(file[1])
      /\ NonBlankLines(file) # <<>> )
    => /\ pc = "parsed"
       /\ Len(csv_data) = Len(NonBlankLines(file))
       /\ \A n \in 1..Len(csv_data) : \A i \in 1..Len(file[1]) :
             (\A j \in (i + 1)..Len(file[1]) : file[1][j] # file[1][i])
                => \E e \in 1..Len(csv_data[n]) :
                      /\ csv_data[n][e].k = PyStr(file[1][i])
                      /\ csv_data[n][e].v = PyStr(NonBlankLines(file)[n][i])

----------------------------------------------------------------------------
(* Vocabulary of the properties of convert_to_json *)

ConvertEnded == pc \in {"converted", "convert_raised"}

\* number of backslashes right in front of position i of s
BackslashesBefore(s, i) ==
    CHOOSE n \in 0..(i - 1) :
        /\ \A j \in (i - n)..(i - 1) : s[j] = "\\"
        /\ (n = i - 1 \/ s[i - n - 1] # "\\")

\* positions of the quotes that open or close a string literal of the
\* JSON text s: the quotes that are not escaped
LiteralQuotes(s) ==
    {i \in 1..Len(s) : s[i] = "\"" /\ BackslashesBefore(s, i) % 2 = 0}

\* for each character of a JSON text, whether it lies outside every string
\* literal (the quotes of a literal count as inside)
OutsideLiteral(s) ==
    LET quotes == LiteralQuotes(s)
    IN  [i \in 1..Len(s) |->
            i \notin quotes /\ Cardinality({q \in quotes : q < i}) % 2 = 0]

\* the text without the whitespace that lies outside string literals
WithoutLayout(s) ==
    LET out == OutsideLiteral(s)
        marked == [i \in 1..Len(s) |-> [c |-> s[i], layout |-> out[i] /\ s[i] \in Whitespace]]
        kept == SelectSeq(marked, LAMBDA m : ~m.layout)
    IN  [i \in 1..Len(kept) |-> kept[i].c]

Scenario1Spaced ==
    <<"[", "{", "\"", "n", "a", "m", "e", "\"", ":", " ", "\"", "A",
      "l", "i", "c", "e", "\"", ",", " ", "\"", "a", "g", "e", "\"",
      ":", " ", "\"", "3", "0", "\"", "}", ",", " ", "{", "\"", "n",
      "a", "m", "e", "\"", ":", " ", "\"", "B", "o", "b", "\"", ",",
      " ", "\"", "a", "g", "e", "\"", ":", " ", "\"", "2", "5", "\"",
      "}", "]">>

Scenario1Tight ==
    <<"[", "{", "\"", "n", "a", "m", "e", "\"", ":", "\"", "A", "l",
      "i", "c", "e", "\"", ",", "\"", "a", "g", "e", "\"", ":", "\"",
      "3", "0", "\"", "}", ",", "{", "\"", "n", "a", "m", "e", "\"",
      ":", "\"", "B", "o", "b", "\"", ",", "\"", "a", "g", "e", "\"",
      ":", "\"", "2", "5", "\"", "}", "]">>

\* the pretty and the compact rendering of the Dataset just converted are
\* the same text once the whitespace outside string literals is dropped
SameUpToLayout ==
    pc = "converted"
       => WithoutLayout(json_output)
             = WithoutLayout(json_dumps(typed_data, IF pretty THEN PyNone ELSE PyInt(Indent)))

(* C5: with inference on, each text value is reclassified in strict order: *)
(* integer if the trimmed text is a plain digit sequence, else float if it *)
(* parses as floating-point, else boolean if its lowercase form is "true"  *)
(* or "false", else the original string; keys and key order are unchanged; *)
(* with inference off every value stays the original string.               *)
C5_InferencePrecedence ==
    pc = "converted"
       => /\ Len(typed_data) = Len(csv_data)
          /\ \A n \in 1..Len(csv_data) :
                /\ Len(typed_data[n]) = Len(csv_data[n])
                /\ \A i \in 1..Len(csv_data[n]) :
                      LET old == csv_data[n][i].v
                          new == typed_data[n][i].v
                      IN  /\ typed_data[n][i].k = csv_data[n][i].k
                          /\ ~infer_types => new = old
                          /\ (infer_types /\ old.t = "str") =>
                                IF strip(old.s) # <<>> /\ AllDecimal(strip(old.s))
                                THEN new = PyInt(DecimalValue(strip(old.s)))
                                ELSE IF ParseFloat(old.s).ok
                                THEN new.t = "float"
                                ELSE IF lower(old.s) \in {<<"t", "r", "u", "e">>,
                                                          <<"f", "a", "l", "s", "e">>}
                                THEN new = PyBool(lower(old.s) = <<"t", "r", "u", "e">>)
                                ELSE new = old

(* C6: _infer_type is total: for every value of a parsed Row (any text,    *)
(* empty, whitespace, signed or non-ASCII digit-like, or the absent        *)
(* marker) it returns a value and never raises.                            *)
C6_InferenceTotal ==
    (ConvertEnded /\ infer_types) => (pc = "converted" /\ exc = NoException)

(* C7: in compact mode convert_to_json emits no whitespace outside string  *)
(* literals (no space after "," or ":" and no newline), so the two-row     *)
(* example renders with nothing between its tokens; the pretty rendering   *)
(* of the same Dataset differs from the compact one only in whitespace     *)
(* outside string literals.                                                *)
C7_CompactNoWhitespace ==
    /\ (pc = "converted" /\ ~pretty) =>
          /\ LET out == OutsideLiteral(json_output)
             IN  \A i \in 1..Len(json_output) :
                    out[i] => json_output[i] \notin Whitespace
          /\ typed_data = Scenario1 => json_output = Scenario1Tight
    /\ SameUpToLayout

(* C7 as the code has it: compact mode emits no newline and no             *)
(* indentation, and the only whitespace outside string literals is the one *)
(* space json.dumps puts after every "," and ":", so the two-row example   *)
(* renders with ", " and ": " between its tokens; the pretty rendering of  *)
(* the same Dataset differs from the compact one only in whitespace        *)
(* outside string literals.                                                *)
C7_CompactSingleSpaces ==
    /\ (pc = "converted" /\ ~pretty) =>
          LET out == OutsideLiteral(json_output)
          IN  /\ \A i \in 1..Len(json_output) :
                    /\ (out[i] /\ json_output[i] \in Whitespace) =>
                          /\ json_output[i] = " "
                          /\ i > 1
                          /\ out[i - 1]
                          /\ json_output[i - 1] \in {",", ":"}
                    /\ (out[i] /\ json_output[i] \in {",", ":"}) =>
                          /\ i < Len(json_output)
                          /\ json_output[i + 1] = " "
              /\ typed_data = Scenario1 => json_output = Scenario1Spaced
    /\ SameUpToLayout

\* the two-row example rendered compact
C7_Witness ==
    /\ pc = "converted"
    /\ ~pretty
    /\ typed_data = Scenario1
    /\ json_output = Scenario1Spaced

----------------------------------------------------------------------------
(* Vocabulary of the properties of main *)

\* the points of a run inside parse_csv
ParsePoints == {"start", "open", "rows", "check"}

\* the points at which a stage has raised and main has not yet handled it
FailedPoints == {"parse_raised", "convert_raised", "output_raised"}

\* the text the Output Sink is to deliver for the serialized text
Delivered ==
    IF Truthy(output_path)
    THEN [to |-> "file", text |-> json_output]
    ELSE [to |-> "stdout", text |-> json_output \o <<"\n">>]

\* the stages run in the order parse, serialize, write, each entered at
\* most once; a failure is followed by the exit only, and nothing follows
\* the end of the run
StagesInOrder ==
    pc' # pc =>
       /\ pc \in ParsePoints => pc' \in (ParsePoints \ {"start"}) \cup {"parsed", "parse_raised"}
       /\ pc = "parsed" => pc' \in {"converted", "convert_raised"}
       /\ pc = "converted" => pc' \in {"done", "output_raised"}
       /\ pc \in FailedPoints => pc' = "exited"
       /\ pc \notin {"done", "exited"}

\* each stage's result is produced by that stage only, and the sink is
\* invoked only with parsing and serialization both done without error
SinkAfterSuccess ==
    /\ csv_data' # csv_data => pc \in ParsePoints
    /\ json_output' # json_output => pc = "parsed" /\ csv_data # <<>>
    /\ sink' # sink =>
          /\ pc = "converted"
          /\ exc = NoException
          /\ json_output = json_dumps(typed_data, IF pretty THEN PyInt(Indent) ELSE PyNone)
          /\ Len(sink') = Len(sink) + 1

\* the only exit main calls is the one with code 1 after a failure
ExitOnlyAfterFailure ==
    exit_code' # exit_code => pc \in FailedPoints /\ exit_code' = PyInt(1)

\* a run that failed has printed one line that begins with "Error: " and
\* carries the message of the failure, and has exit code 1
FailureReported ==
    pc = "exited" =>
       /\ exc # NoException
       /\ Len(stderr) = 1
       /\ Head(stderr[1].text) = "Error: "
       /\ stderr[1].exc = exc
       /\ exit_code = PyInt(1)

\* until a run has failed and exited, nothing is printed to standard error
\* and exit is not called
QuietBeforeExit ==
    pc # "exited" => stderr = <<>> /\ exit_code = PyNone

\* a run in which every stage succeeded has written the output once, whole
SuccessWritesOnce ==
    pc = "done" => sink = <<Delivered>> /\ exc = NoException

\* a run in which parsing or serialization failed has written nothing
NothingWrittenBeforeSink ==
    (pc \in {"parse_raised", "convert_raised"}
        \/ (pc = "exited" /\ exc # UnableToWriteError)) => sink = <<>>

\* a run in which some stage failed, the write included, has written nothing
NothingWrittenOnFailure ==
    pc \in FailedPoints \cup {"exited"} => sink = <<>>

(* C11: in every run of main the stages execute in the order parse,        *)
(* (infer +) serialize, write, each at most once, and the Output Sink is   *)
(* invoked only after parsing and serialization have both succeeded; if    *)
(* any stage fails, nothing is written to the output destination, a line   *)
(* "Error: <message>" is printed to standard error and the run ends with   *)
(* exit code 1 without retrying; a run in which every stage succeeds       *)
(* writes the output exactly once and never calls exit with a non-zero     *)
(* code.                                                                   *)
C11_SequentialFailFast ==
    /\ [](/\ NothingWrittenOnFailure
          /\ FailureReported
          /\ QuietBeforeExit
          /\ SuccessWritesOnce)
    /\ [][StagesInOrder /\ SinkAfterSuccess /\ ExitOnlyAfterFailure]_vars

====
